---- MODULE Spec2Model ----
(***************************************************************************)
(* A model of src/isolate/stack_trace.cc: the hidden chain-data slot of an *)
(* error object, the "stack" accessor that renders it, AttachStack and     *)
(* ChainStack, and the renderers RenderErrorStack and RenderSingleStack.   *)
(*                                                                         *)
(* A JavaScript string is a sequence of UTF-16 code units (naturals); a C  *)
(* string is a sequence of bytes cut at its first NUL.  A JavaScript value *)
(* is a record tagged by its field t.                                      *)
(***************************************************************************)
EXTENDS Integers, Sequences, FiniteSets

VARIABLES
    slot,       \* the private-symbol slot of the error (GetPrivateStackSymbol)
    message,    \* the error's "message" property, a JavaScript value
    stackProp,  \* the error's own "stack" property
    err,        \* what never changes: constructor name, V8's own stack trace
    alive,      \* which contexts are still alive
    lastRead,   \* the outcome of the last read of "stack" since the slot changed
    hist,       \* the chain's segments, oldest first (history variable)
    op,         \* the last AttachStack / ChainStack call (history variable)
    data,       \* renderer check: the value handed to RenderErrorStack
    rendered,   \* renderer check: what it returned
    pc          \* renderer check: "in" before the call, "done" after

vars == <<slot, message, stackProp, err, alive, lastRead, hist, op, data, rendered, pc>>

(***************************************************************************)
(* Bounds of the model.                                                    *)
(***************************************************************************)
MaxChain == 3      \* Link depth up to which ChainStack is explored
MaxStrLen == 5     \* length of the plain strings handed to the renderer
MaxFrames == 2     \* frames of the stack traces handed to the renderer

(***************************************************************************)
(* Strings and their encodings.                                            *)
(***************************************************************************)
RECURSIVE Flatten(_)
Flatten(seqs) ==
    IF seqs = <<>> THEN <<>> ELSE Head(seqs) \o Flatten(Tail(seqs))

\* One code point as UTF-8 bytes.  A surrogate that stands alone is written
\* as any other three-byte code point.
Utf8Encode(cp) ==
    IF cp < 128 THEN <<cp>>
    ELSE IF cp < 2048 THEN <<192 + (cp \div 64), 128 + (cp % 64)>>
    ELSE IF cp < 65536
    THEN <<224 + (cp \div 4096), 128 + ((cp \div 64) % 64), 128 + (cp % 64)>>
    ELSE <<240 + (cp \div 262144), 128 + ((cp \div 4096) % 64),
           128 + ((cp \div 64) % 64), 128 + (cp % 64)>>

IsLead(unit) == unit >= 55296 /\ unit < 56320       \* 0xD800..0xDBFF
IsTrail(unit) == unit >= 56320 /\ unit < 57344      \* 0xDC00..0xDFFF

\* String::Utf8Value: the string's UTF-8 bytes, a surrogate pair being one
\* code point of four bytes.
RECURSIVE Utf8Value(_)
Utf8Value(s) ==
    IF s = <<>> THEN <<>>
    ELSE IF Len(s) >= 2 /\ IsLead(s[1]) /\ IsTrail(s[2])
    THEN Utf8Encode(65536 + (s[1] - 55296) * 1024 + (s[2] - 56320))
            \o Utf8Value(SubSeq(s, 3, Len(s)))
    ELSE Utf8Encode(s[1]) \o Utf8Value(Tail(s))

\* The position of the first byte c of a byte sequence, 0 when there is none.
FirstIndex(bytes, c) ==
    IF \E i \in 1..Len(bytes) : bytes[i] = c
    THEN CHOOSE i \in 1..Len(bytes) :
            bytes[i] = c /\ \A j \in 1..(i - 1) : bytes[j] # c
    ELSE 0

\* What a reader of a NUL-terminated char* sees of a buffer.
CStr(bytes) ==
    IF FirstIndex(bytes, 0) = 0 THEN bytes
    ELSE SubSeq(bytes, 1, FirstIndex(bytes, 0) - 1)

\* c_str[i], zero-based; the terminator at and past the end.
ByteAt(c_str, i) == IF i < Len(c_str) THEN c_str[i + 1] ELSE 0

\* strchr(c_str, c): the position of the first c (one-based), 0 for nullptr.
StrChr(c_str, c) == FirstIndex(c_str, c)

\* String::NewFromOneByte: every byte is one Latin-1 character.
NewFromOneByte(bytes) == [i \in 1..Len(bytes) |-> bytes[i]]

InRange(bytes, i, lo, hi) ==
    i <= Len(bytes) /\ bytes[i] >= lo /\ bytes[i] <= hi

IsContinuation(bytes, i) == InRange(bytes, i, 128, 191)

\* The length of the sequence a first byte announces, 0 for a byte that
\* starts none (a continuation byte, 0xC0, 0xC1, 0xF5 and above).
SeqLen(b) ==
    IF b < 128 THEN 1
    ELSE IF b >= 194 /\ b <= 223 THEN 2
    ELSE IF b >= 224 /\ b <= 239 THEN 3
    ELSE IF b >= 240 /\ b <= 244 THEN 4
    ELSE 0

\* The second bytes a first byte admits: no overlong form, no surrogate,
\* nothing above U+10FFFF.
SecondLo(b) == IF b = 224 THEN 160 ELSE IF b = 240 THEN 144 ELSE 128
SecondHi(b) == IF b = 237 THEN 159 ELSE IF b = 244 THEN 143 ELSE 191

\* A code point as UTF-16 code units.
Utf16(cp) ==
    IF cp < 65536 THEN <<cp>>
    ELSE <<55296 + ((cp - 65536) \div 1024), 56320 + ((cp - 65536) % 1024)>>

\* String::NewFromUtf8: UTF-8 decoded; every longest prefix of a well-formed
\* sequence that is not completed, and every other byte that starts no
\* sequence, becomes one U+FFFD.
RECURSIVE NewFromUtf8(_)
NewFromUtf8(bytes) ==
    IF bytes = <<>> THEN <<>>
    ELSE LET b == bytes[1]
             n == SeqLen(b)
             rest(k) == NewFromUtf8(SubSeq(bytes, k + 1, Len(bytes)))
         IN  IF n = 1 THEN <<b>> \o rest(1)
             ELSE IF n = 0 \/ ~InRange(bytes, 2, SecondLo(b), SecondHi(b))
             THEN <<65533>> \o rest(1)
             ELSE IF n = 2
             THEN <<(b - 192) * 64 + (bytes[2] - 128)>> \o rest(2)
             ELSE IF ~IsContinuation(bytes, 3) THEN <<65533>> \o rest(2)
             ELSE IF n = 3
             THEN <<(b - 224) * 4096 + (bytes[2] - 128) * 64 + (bytes[3] - 128)>>
                  \o rest(3)
             ELSE IF ~IsContinuation(bytes, 4) THEN <<65533>> \o rest(3)
             ELSE Utf16((b - 240) * 262144 + (bytes[2] - 128) * 4096
                        + (bytes[3] - 128) * 64 + (bytes[4] - 128)) \o rest(4)

\* operator<<(std::ostream&, int): the decimal digits.
RECURSIVE IntToDec(_)
IntToDec(n) ==
    IF n < 0 THEN <<45>> \o IntToDec(0 - n)
    ELSE IF n < 10 THEN <<48 + n>>
    ELSE IntToDec(n \div 10) \o <<48 + (n % 10)>>

(***************************************************************************)
(* JavaScript values.                                                      *)
(***************************************************************************)
Undefined == [t |-> "undefined"]
StringValue(s) == [t |-> "string", s |-> s]
NumberValue(n) == [t |-> "number", n |-> n]
Holder(stack) == [t |-> "holder", stack_trace |-> stack]
Array(elems) == [t |-> "array", elems |-> elems]

\* array->Get(context, i), zero-based: undefined past the end.
ArrayGet(array, i) ==
    IF i < Len(array.elems) THEN array.elems[i + 1] ELSE Undefined

\* Value::ToString of a message.
ToString(v) ==
    IF v.t = "string" THEN v.s
    ELSE IF v.t = "number" THEN IntToDec(v.n)
    ELSE <<117, 110, 100, 101, 102, 105, 110, 101, 100>>     \* "undefined"

\* The outcome of a rendering: a string, or undefined behaviour.  null tells
\* that a null char* was inserted into a stream on the way, which is undefined
\* behaviour as well: str is then what a build returns whose stream turns bad
\* at the insertion and goes on.
Ok(s) == [ok |-> TRUE, str |-> s, null |-> FALSE]
UndefinedBehaviour == [ok |-> FALSE, str |-> <<>>, null |-> FALSE]
Crashed == [ok |-> FALSE, str |-> <<>>, null |-> TRUE]
Concat(a, b) ==
    IF a.ok /\ b.ok
    THEN [ok |-> TRUE, str |-> a.str \o b.str, null |-> a.null \/ b.null]
    ELSE UndefinedBehaviour

(***************************************************************************)
(* StackTraceHolder::RenderSingleStack.                                     *)
(***************************************************************************)
kNoScriptIdInfo == 0

AtEvalColon == <<10, 32, 32, 32, 32, 97, 116, 32, 91, 101, 118, 97, 108, 93, 58>>
                                                      \* "\n    at [eval]:"
AtEvalParen == <<10, 32, 32, 32, 32, 97, 116, 32, 91, 101, 118, 97, 108, 93, 32, 40>>
                                                      \* "\n    at [eval] ("
AtPrefix == <<10, 32, 32, 32, 32, 97, 116, 32>>       \* "\n    at "
Colon == <<58>>                                       \* ":"

\* What is handed to operator<<: characters, or the null char* that
\* *Utf8Value is when the value was made from an empty handle.
Chars(bytes) == [null |-> FALSE, bytes |-> bytes]
NullChars == [null |-> TRUE, bytes |-> <<>>]

\* *script_name: frame->GetScriptName() is an empty handle for a frame of a
\* script that has no name.
ScriptName(frame) ==
    IF frame.hasScript THEN Chars(CStr(Utf8Value(frame.script))) ELSE NullChars

\* The insertions one frame makes (the body of the loop), in order.
FrameLine(frame) ==
    LET script_name == ScriptName(frame)
        line == Chars(IntToDec(frame.line))
        column == Chars(IntToDec(frame.column))
        fn_name == Utf8Value(frame.fn)
    IN  IF frame.isEval
        THEN IF frame.scriptId = kNoScriptIdInfo
             THEN <<Chars(AtEvalColon), line, Chars(Colon), column>>
             ELSE <<Chars(AtEvalParen), script_name, Chars(Colon), line,
                    Chars(Colon), column>>
        ELSE IF Len(fn_name) = 0
             THEN <<Chars(AtPrefix), script_name, Chars(Colon), line,
                    Chars(Colon), column>>
             ELSE <<Chars(AtPrefix), Chars(CStr(fn_name)), Chars(<<32, 40>>),
                    script_name, Chars(Colon), line, Chars(Colon), column,
                    Chars(<<41>>)>>

\* operator<< on the stringstream: a stream that is bad takes nothing more;
\* a null char* writes nothing and turns the stream bad.
Insert(ss, item) ==
    IF ss.bad THEN ss
    ELSE IF item.null THEN [ss EXCEPT !.bad = TRUE]
    ELSE [ss EXCEPT !.str = @ \o item.bytes]

RECURSIVE InsertAll(_, _)
InsertAll(ss, items) ==
    IF items = <<>> THEN ss
    ELSE InsertAll(Insert(ss, Head(items)), Tail(items))

\* The stringstream after the loop over the frames.
StreamOf(stack_trace) ==
    InsertAll([str |-> <<>>, bad |-> FALSE],
              Flatten([ii \in 1..Len(stack_trace.frames) |->
                          FrameLine(stack_trace.frames[ii])]))

\* ss.str()
RenderSingleStack(stack_trace) == StreamOf(stack_trace).str

\* Whether the loop inserted a null char*.
InsertsNull(stack_trace) == StreamOf(stack_trace).bad

(***************************************************************************)
(* RenderErrorStack.                                                        *)
(***************************************************************************)
BoundaryMarker ==                       \* "\n    at (<isolated-vm boundary>)"
    <<10, 32, 32, 32, 32, 97, 116, 32, 40, 60, 105, 115, 111, 108, 97, 116,
      101, 100, 45, 118, 109, 32, 98, 111, 117, 110, 100, 97, 114, 121, 62, 41>>

\* The string branch.
RenderString(s) ==
    LET c_str == CStr(Utf8Value(s))
        newline == StrChr(c_str, 10)
    IN  IF ByteAt(c_str, 0) = 32 /\ ByteAt(c_str, 1) = 32
           /\ ByteAt(c_str, 2) = 32 /\ ByteAt(c_str, 3) = 32
        THEN Ok(s)
        ELSE IF newline = 0 THEN Ok(<<>>)
        ELSE Ok(NewFromOneByte(SubSeq(c_str, newline, Len(c_str))))

\* The holder branch: the persistent handle is dereferenced and rendered,
\* whatever became of the context the trace was captured in.
RenderHolder(holder) ==
    [ok |-> TRUE,
     str |-> NewFromUtf8(CStr(RenderSingleStack(holder.stack_trace))),
     null |-> InsertsNull(holder.stack_trace)]

\* RenderPair as it would be with the newest segment first.
RenderPairNewestFirst(older, newer) ==
    Concat(Concat(newer, Ok(BoundaryMarker)), older)

\* The array branch's two String::Concat calls.
RenderPair(older, newer) ==
    Concat(Concat(older, Ok(BoundaryMarker)), newer)

\* The else branch takes anything that is neither a string nor an array for a
\* StackTraceHolder and unwraps it: undefined behaviour for any other value.
RECURSIVE RenderErrorStack(_)
RenderErrorStack(value) ==
    IF value.t = "string" THEN RenderString(value.s)
    ELSE IF value.t = "array"
    THEN RenderPair(RenderErrorStack(ArrayGet(value, 1)),
                    RenderErrorStack(ArrayGet(value, 0)))
    ELSE IF value.t = "holder" THEN RenderHolder(value)
    ELSE UndefinedBehaviour

(***************************************************************************)
(* The error object: its own "stack" property and its hidden slot.         *)
(***************************************************************************)
Contexts == {1, 2}
Receivers == {"error", "inherited"}   \* the error, an object inheriting from it

\* Local<StackTrace>(): the empty handle.
NoStackTrace == [empty |-> TRUE]

AbsentProp ==
    [kind |-> "absent", value |-> Undefined, attrs |-> {},
     getter |-> "nullptr", setter |-> "nullptr"]
DataProp(v, attributes) ==
    [kind |-> "data", value |-> v, attrs |-> attributes,
     getter |-> "nullptr", setter |-> "nullptr"]

\* Object::SetAccessor: a property that is not configurable stays as it is
\* (Just(false)); otherwise the property becomes the native accessor.
SetAccessor(prop, getter, setter, attributes) ==
    IF prop.kind # "absent" /\ "DontDelete" \in prop.attrs
    THEN prop
    ELSE [kind |-> "accessor", value |-> Undefined, attrs |-> attributes,
          getter |-> getter, setter |-> setter]

\* The PropertyAttribute handed to SetAccessor.
StackAttributes == {"DontEnum"}

\* AttachStackGetter: SetPrivate, then SetAccessor, its result dropped.
AttachStackGetter(value) ==
    /\ slot' = value
    /\ stackProp' = SetAccessor(stackProp, "ErrorStackGetter", "nullptr", StackAttributes)

\* holder->GetPrivate: private symbols are not looked up along the prototype
\* chain, so only the error itself has the slot.
GetPrivate(receiver) == IF receiver = "error" THEN slot ELSE Undefined

\* ErrorStackGetterValue as it would be with the message left out.
ErrorStackGetterNoMessage(receiver) ==
    Concat(Concat(Ok(err.ctor), Ok(<<58, 32>>)),
           RenderErrorStack(GetPrivate(receiver)))

\* What ErrorStackGetter returns for info.This() = receiver.
ErrorStackGetterValue(receiver) ==
    Concat(Concat(Ok(err.ctor), Ok(<<58, 32>>)),
           Concat(Ok(ToString(message)), RenderErrorStack(GetPrivate(receiver))))

\* What stands for a value the program never gets: the call that was to
\* return it ran into undefined behaviour.
NoValue == [t |-> "undefined behaviour"]

\* error->Get(context, "stack") while the slot is still undefined: a data
\* property gives its value; the accessor runs ErrorStackGetter, which renders
\* the undefined slot.
GetStack ==
    IF stackProp.kind = "data" THEN stackProp.value
    ELSE IF stackProp.kind = "accessor"
    THEN IF ErrorStackGetterValue("error").ok
         THEN StringValue(ErrorStackGetterValue("error").str)
         ELSE NoValue
    ELSE Undefined

\* MakePair as it would be if a capture equal to the newest were not linked again.
MakePairOnce(stack, existing_data) ==
    IF existing_data.t = "array" /\ ArrayGet(existing_data, 0) = Holder(stack)
    THEN existing_data
    ELSE Array(<<Holder(stack), existing_data>>)

\* MakePair as it would be if the new holder replaced the newest segment.
MakePairReplacing(stack, existing_data) ==
    IF existing_data.t = "array"
    THEN Array(<<Holder(stack), ArrayGet(existing_data, 1)>>)
    ELSE Array(<<Holder(stack), existing_data>>)

\* Array::New(isolate, 2) with element 0 the new holder, element 1 the old data.
MakePair(stack, existing_data) ==
    Array(<<Holder(stack), existing_data>>)

\* The value ChainStack hands to AttachStackGetter.
ChainStackData(stack) ==
    IF slot.t = "undefined"
    THEN IF err.nativeTrace = NoStackTrace
         THEN IF GetStack = NoValue THEN NoValue
              ELSE IF GetStack.t = "undefined" \/ GetStack.t # "string"
              THEN Holder(stack)
              ELSE MakePair(stack, GetStack)
         ELSE MakePair(stack, Holder(err.nativeTrace))
    ELSE MakePair(stack, slot)

RECURSIVE LinkDepth(_)
LinkDepth(value) ==
    IF value.t = "array" THEN 1 + LinkDepth(ArrayGet(value, 1)) ELSE 0

(***************************************************************************)
(* The inputs of the model.                                                *)
(***************************************************************************)
\* A frame of a named function; the frames of code run by eval, whose script
\* has an id and no name, called from a script's top level; the frame V8 kept
\* of an error thrown by code that has no script id.
TraceA ==
    [ctx |-> 1,
     frames |-> <<[fn |-> <<114, 117, 110>>, script |-> <<97, 46, 106, 115>>,
                   hasScript |-> TRUE,
                   line |-> 3, column |-> 9, isEval |-> FALSE, scriptId |-> 7]>>]
TraceB ==
    [ctx |-> 2,
     frames |-> <<[fn |-> <<>>, script |-> <<>>, hasScript |-> FALSE,
                   line |-> 1, column |-> 12, isEval |-> TRUE, scriptId |-> 8],
                  [fn |-> <<>>, script |-> <<233, 46, 106, 115>>,
                   hasScript |-> TRUE,
                   line |-> 10, column |-> 1, isEval |-> FALSE, scriptId |-> 6]>>]
TraceNative ==
    [ctx |-> 1,
     frames |-> <<[fn |-> <<>>, script |-> <<>>, hasScript |-> FALSE,
                   line |-> 2, column |-> 5, isEval |-> TRUE, scriptId |-> 0]>>]
Captures == {TraceA, TraceB}

Messages == {StringValue(<<98, 111, 111, 109>>), Undefined}       \* "boom"
ErrorName == <<69, 114, 114, 111, 114>>                              \* "Error"
TypeErrorName == <<84, 121, 112, 101, 69, 114, 114, 111, 114>>       \* "TypeError"

\* "Error: boom\n    at m (b.js:1:1)", as a flattened "stack" string.
FlatStack ==
    <<69, 114, 114, 111, 114, 58, 32, 98, 111, 111, 109, 10, 32, 32, 32, 32,
      97, 116, 32, 109, 32, 40, 98, 46, 106, 115, 58, 49, 58, 49, 41>>

\* The errors handed to AttachStack and ChainStack: an object with no "stack";
\* an error V8 holds a stack trace of; a copy whose "stack" was flattened to a
\* string; the same, frozen; an object whose "stack" is no string.
InitialErrors ==
    {[ctor |-> ErrorName, stack |-> AbsentProp, nativeTrace |-> NoStackTrace],
     [ctor |-> TypeErrorName, stack |-> DataProp(StringValue(FlatStack), {"DontEnum"}),
      nativeTrace |-> TraceNative],
     [ctor |-> ErrorName, stack |-> DataProp(StringValue(FlatStack), {"DontEnum"}),
      nativeTrace |-> NoStackTrace],
     [ctor |-> TypeErrorName,
      stack |-> DataProp(StringValue(FlatStack), {"DontEnum", "DontDelete", "ReadOnly"}),
      nativeTrace |-> NoStackTrace],
     [ctor |-> ErrorName, stack |-> DataProp(NumberValue(7), {}),
      nativeTrace |-> NoStackTrace]}

\* No read of "stack" yet since the slot was last written (history variable:
\* prev is the read before the last one).
NoPrev == [status |-> "none", recv |-> "error", value |-> <<>>, msg |-> Undefined]
NoRead ==
    [status |-> "none", recv |-> "error", value |-> <<>>,
     slotRead |-> Undefined, msg |-> Undefined, ub |-> FALSE, prev |-> NoPrev]
PrevOf(r) == [status |-> r.status, recv |-> r.recv, value |-> r.value, msg |-> r.msg]
NoOp ==
    [name |-> "none", stack |-> NoStackTrace, before |-> Undefined,
     prevName |-> "none", prevStack |-> NoStackTrace]

\* What the build may do once RenderErrorStack has unwrapped a value that is
\* no StackTraceHolder: abort, or go on with some string.
UBOutcomes ==
    {[status |-> "crash", str |-> <<>>],
     [status |-> "ok", str |-> <<>>],
     [status |-> "ok", str |-> <<63>>]}

\* What a read of "stack" may come to, r being what ErrorStackGetter computes
\* and head what it has put together before it renders the slot.  After a
\* null char* was inserted the build either goes on with the bad stream or
\* aborts.
ReadOutcomes(r, head) ==
    IF ~r.ok
    THEN {[status |-> o.status,
           value |-> IF o.status = "ok" THEN head \o o.str ELSE <<>>,
           ub |-> TRUE] : o \in UBOutcomes}
    ELSE IF r.null
    THEN {[status |-> "ok", value |-> r.str, ub |-> FALSE],
          [status |-> "crash", value |-> <<>>, ub |-> TRUE]}
    ELSE {[status |-> "ok", value |-> r.str, ub |-> FALSE]}

\* The same for a call of RenderErrorStack alone.
RenderOutcomes(r) == IF r.ok /\ r.null THEN {r, Crashed} ELSE {r}

\* Nothing is said of the program after undefined behaviour.
Running == ~lastRead.ub

RenderIdle == data = Undefined /\ rendered = Ok(<<>>) /\ pc = "off"

Init ==
    /\ slot = Undefined
    /\ message \in Messages
    /\ \E e \in InitialErrors :
          /\ stackProp = e.stack
          /\ err = [ctor |-> e.ctor, nativeTrace |-> e.nativeTrace]
    /\ alive = [c \in Contexts |-> TRUE]
    /\ lastRead = NoRead
    /\ hist = <<>>
    /\ op = NoOp
    /\ RenderIdle

(***************************************************************************)
(* The operations.                                                         *)
(***************************************************************************)
AttachStack(stack) ==
    /\ Running
    /\ AttachStackGetter(Holder(stack))
    /\ hist' = <<Holder(stack)>>
    /\ op' = [name |-> "AttachStack", stack |-> stack, before |-> slot,
              prevName |-> op.name, prevStack |-> op.stack]
    /\ lastRead' = NoRead
    /\ UNCHANGED <<message, err, alive, data, rendered, pc>>

ChainStack(stack) ==
    /\ Running
    /\ LinkDepth(slot) < MaxChain
    /\ IF ChainStackData(stack) = NoValue
       THEN /\ lastRead' = [NoRead EXCEPT !.status = "crash", !.ub = TRUE]
            /\ UNCHANGED <<slot, stackProp, hist, op>>
       ELSE /\ AttachStackGetter(ChainStackData(stack))
            /\ hist' = IF slot.t # "undefined" THEN Append(hist, Holder(stack))
                       ELSE IF err.nativeTrace # NoStackTrace
                       THEN <<Holder(err.nativeTrace), Holder(stack)>>
                       ELSE IF stackProp.kind = "data" /\ stackProp.value.t = "string"
                       THEN <<stackProp.value, Holder(stack)>>
                       ELSE <<Holder(stack)>>
            /\ op' = [name |-> "ChainStack", stack |-> stack, before |-> slot,
                      prevName |-> op.name, prevStack |-> op.stack]
            /\ lastRead' = NoRead
    /\ UNCHANGED <<message, err, alive, data, rendered, pc>>

\* A read of "stack" that reaches ErrorStackGetter, on the error or on an
\* object that inherits the accessor from it.
ReadStack(receiver) ==
    /\ Running
    /\ stackProp.kind = "accessor" /\ stackProp.getter = "ErrorStackGetter"
    /\ \E o \in ReadOutcomes(ErrorStackGetterValue(receiver),
                             err.ctor \o <<58, 32>> \o ToString(message)) :
          lastRead' = [status |-> o.status, recv |-> receiver, value |-> o.value,
                       slotRead |-> GetPrivate(receiver), msg |-> message,
                       ub |-> o.ub, prev |-> PrevOf(lastRead)]
    /\ UNCHANGED <<slot, message, stackProp, err, alive, hist, op, data, rendered, pc>>

\* error.message = m, by the code that holds the error.
SetMessage(m) ==
    /\ Running
    /\ m # message
    /\ message' = m
    /\ UNCHANGED <<slot, stackProp, err, alive, lastRead, hist, op, data, rendered, pc>>

\* The context a trace was captured in is destroyed by its owner.
DestroyContext(c) ==
    /\ Running
    /\ alive[c]
    /\ alive' = [alive EXCEPT ![c] = FALSE]
    /\ lastRead' = NoRead
    /\ UNCHANGED <<slot, message, stackProp, err, hist, op, data, rendered, pc>>

Next ==
    \/ \E stack \in Captures : AttachStack(stack)
    \/ \E stack \in Captures : ChainStack(stack)
    \/ \E receiver \in Receivers : ReadStack(receiver)
    \/ \E m \in Messages : SetMessage(m)
    \/ \E c \in Contexts : DestroyContext(c)

Spec == Init /\ [][Next]_vars

(***************************************************************************)
(* The renderer alone, on strings and on stack traces.                     *)
(***************************************************************************)
MainIdle ==
    /\ slot = Undefined
    /\ message = Undefined
    /\ stackProp = AbsentProp
    /\ err = [ctor |-> ErrorName, nativeTrace |-> NoStackTrace]
    /\ alive = [c \in Contexts |-> TRUE]
    /\ lastRead = NoRead
    /\ hist = <<>>
    /\ op = NoOp

StringAlphabet == {10, 32, 97, 233}          \* newline, space, "a", e-acute
Strings == UNION {[1..n -> StringAlphabet] : n \in 0..MaxStrLen}

\* The script names of the frames: a name that is not ASCII, a name that is a
\* surrogate standing alone, no name.
Scripts ==
    {[hasScript |-> TRUE, script |-> <<233>>],
     [hasScript |-> TRUE, script |-> <<55296>>],
     [hasScript |-> FALSE, script |-> <<>>]}

Frames ==
    {[fn |-> fn, script |-> sc.script, hasScript |-> sc.hasScript, line |-> line,
      column |-> 2, isEval |-> isEval, scriptId |-> scriptId] :
        fn \in {<<>>, <<102>>}, sc \in Scripts, line \in {1, 10},
        isEval \in BOOLEAN, scriptId \in {kNoScriptIdInfo, 5}}
StackTraces ==
    {[ctx |-> 1, frames |-> fs] : fs \in UNION {[1..n -> Frames] : n \in 0..MaxFrames}}

Render ==
    /\ pc = "in"
    /\ rendered' \in RenderOutcomes(RenderErrorStack(data))
    /\ pc' = "done"
    /\ UNCHANGED <<slot, message, stackProp, err, alive, lastRead, hist, op, data>>

InitString ==
    /\ data \in {StringValue(s) : s \in Strings}
    /\ rendered = Ok(<<>>)
    /\ pc = "in"
    /\ MainIdle

InitFrames ==
    /\ data \in {Holder(st) : st \in StackTraces}
    /\ rendered = Ok(<<>>)
    /\ pc = "in"
    /\ MainIdle

NextRender == Render

SpecString == InitString /\ [][NextRender]_vars
SpecFrames == InitFrames /\ [][NextRender]_vars

(***************************************************************************)
(* What the claims are stated with.                                        *)
(***************************************************************************)
\* The read was served by the error itself and followed the code.
ReadOk == lastRead.status = "ok" /\ lastRead.recv = "error" /\ ~lastRead.ub

\* "<ConstructorName>: <message>" for a message value.
HeadOf(msg) == err.ctor \o <<58, 32>> \o ToString(msg)

\* What follows the head in a string that was read.
BodyOf(value, msg) == SubSeq(value, Len(HeadOf(msg)) + 1, Len(value))
ReadBody == BodyOf(lastRead.value, lastRead.msg)

\* The text of one segment of the chain: a holder's frames, a string's body.
SegmentText(seg) ==
    IF seg.t = "holder" THEN NewFromUtf8(CStr(RenderSingleStack(seg.stack_trace)))
    ELSE RenderString(seg.s).str

\* The segments in the order given, a boundary marker between neighbours.
RECURSIVE JoinSegments(_)
JoinSegments(segs) ==
    IF segs = <<>> THEN <<>>
    ELSE IF Len(segs) = 1 THEN SegmentText(segs[1])
    ELSE SegmentText(segs[1]) \o BoundaryMarker \o JoinSegments(Tail(segs))

\* As JoinSegments, a holder of a destroyed context contributing nothing.
RECURSIVE JoinLiveSegments(_)
JoinLiveSegments(segs) ==
    LET text(seg) == IF seg.t = "holder" /\ ~alive[seg.stack_trace.ctx]
                     THEN <<>> ELSE SegmentText(seg)
    IN  IF segs = <<>> THEN <<>>
        ELSE IF Len(segs) = 1 THEN text(segs[1])
        ELSE text(segs[1]) \o BoundaryMarker \o JoinLiveSegments(Tail(segs))

\* How often pat occurs in s.
Occurrences(pat, s) ==
    Cardinality({i \in 1..(Len(s) - Len(pat) + 1) : SubSeq(s, i, i + Len(pat) - 1) = pat})

Markers(value) == Occurrences(BoundaryMarker, RenderErrorStack(value).str)

RECURSIVE Leaves(_)
Leaves(value) ==
    IF value.t = "array"
    THEN Leaves(ArrayGet(value, 0)) + Leaves(ArrayGet(value, 1))
    ELSE 1

AllHolders(segs) == \A i \in 1..Len(segs) : segs[i].t = "holder"

(***************************************************************************)
(* C1.  An error attached in one context and chained in a second reads as  *)
(* the first capture's frames, one boundary marker, the second capture's   *)
(* frames; and a pair (newer, older) always reads as the older data, the   *)
(* marker, the newer data.                                                 *)
(***************************************************************************)
C1_OldestFirst ==
    /\ (ReadOk /\ Len(hist) = 2 /\ AllHolders(hist)) =>
          /\ slot = Array(<<hist[2], hist[1]>>)
          /\ ReadBody = SegmentText(hist[1]) \o BoundaryMarker \o SegmentText(hist[2])
          /\ Occurrences(BoundaryMarker, ReadBody) = 1
    /\ (ReadOk /\ slot.t = "array") =>
          ReadBody = RenderErrorStack(ArrayGet(slot, 1)).str \o BoundaryMarker
                        \o RenderErrorStack(ArrayGet(slot, 0)).str

C1_Witness ==
    /\ ReadOk
    /\ err.nativeTrace = NoStackTrace
    /\ op.name = "ChainStack" /\ op.prevName = "AttachStack"
    /\ hist = <<Holder(TraceA), Holder(TraceB)>>

(***************************************************************************)
(* C2.  N captures read as N segments, oldest first, with N-1 boundary     *)
(* markers; a ChainStack on an error that has chain data puts the pair     *)
(* (new holder, previous data) in the slot, one Link deeper.               *)
(***************************************************************************)
C2_ChainOfN ==
    /\ (ReadOk /\ AllHolders(hist)) =>
          /\ Len(hist) >= 1
          /\ ReadBody = JoinSegments(hist)
          /\ Occurrences(BoundaryMarker, ReadBody) = Len(hist) - 1
          /\ Leaves(slot) = Len(hist)
    /\ (op.name = "ChainStack" /\ op.before.t # "undefined") =>
          /\ slot = Array(<<Holder(op.stack), op.before>>)
          /\ LinkDepth(slot) = LinkDepth(op.before) + 1

C2_Witness ==
    /\ ReadOk /\ AllHolders(hist) /\ Len(hist) = 3
    /\ hist[1] # hist[2] /\ hist[2] # hist[3]
    /\ op.name = "ChainStack" /\ op.before.t = "array"

SomeSegmentDead ==
    \E i \in 1..Len(hist) : hist[i].t = "holder" /\ ~alive[hist[i].stack_trace.ctx]

(***************************************************************************)
(* C3.  As claimed: a segment whose context was destroyed before the read  *)
(* contributes the empty string, the rest of the chain reads as before.    *)
(***************************************************************************)
C3_DeadSegmentEmpty ==
    (lastRead.status # "none" /\ lastRead.recv = "error" /\ SomeSegmentDead) =>
        /\ ReadOk
        /\ ReadBody = JoinLiveSegments(hist)

(***************************************************************************)
(* C4.  A read returns the constructor name, ": ", the message as it is at *)
(* the read, and the rendered chain; a second read with the same message   *)
(* returns the same string, a read after the message changed differs in    *)
(* the message only, and a read leaves the slot as it was.                 *)
(***************************************************************************)
C4_LiveMessage ==
    ReadOk =>
        /\ lastRead.value = err.ctor \o <<58, 32>> \o ToString(lastRead.msg)
                               \o JoinSegments(hist)
        /\ lastRead.slotRead = slot
        /\ lastRead.prev.status = "ok" =>
              /\ lastRead.prev.msg = lastRead.msg => lastRead.value = lastRead.prev.value
              /\ BodyOf(lastRead.prev.value, lastRead.prev.msg) = ReadBody

C4_Witness ==
    /\ ReadOk
    /\ lastRead.prev.status = "ok"
    /\ lastRead.prev.msg # lastRead.msg
    /\ lastRead.prev.value # lastRead.value
    /\ ReadBody # <<>>

(***************************************************************************)
(* C7.  As claimed: a slot value that is no string, no pair and no holder  *)
(* reads as the empty chain, and the read does not fail.                   *)
(***************************************************************************)
C7_MalformedRendersEmpty ==
    (lastRead.status # "none"
        /\ lastRead.slotRead.t \notin {"string", "array", "holder"}) =>
        /\ lastRead.status = "ok"
        /\ ReadBody = <<>>

(***************************************************************************)
(* C8.  As claimed: after any attach or chain the error's "stack" is an    *)
(* accessor that is not enumerable and not configurable, with a getter and *)
(* no setter.                                                              *)
(***************************************************************************)
C8_NotConfigurable ==
    op.name # "none" =>
        /\ stackProp.kind = "accessor"
        /\ "DontEnum" \in stackProp.attrs
        /\ "DontDelete" \in stackProp.attrs
        /\ stackProp.getter = "ErrorStackGetter"
        /\ stackProp.setter = "nullptr"

(***************************************************************************)
(* C9.  As claimed: an error whose slot is set carries the accessor that   *)
(* renders the slot, whatever attach and chain calls were made.            *)
(***************************************************************************)
C9_SlotHasAccessor ==
    slot.t # "undefined" =>
        /\ stackProp.kind = "accessor"
        /\ stackProp.getter = "ErrorStackGetter"
        /\ ReadOk => lastRead.slotRead = slot

RepeatedChain ==
    /\ op.name = "ChainStack"
    /\ op.prevName = "ChainStack"
    /\ op.prevStack = op.stack

(***************************************************************************)
(* C10.  As claimed: a second ChainStack with the capture of the ChainStack*)
(* before it adds no segment and no boundary marker.                       *)
(***************************************************************************)
C10_RepeatIdempotent ==
    RepeatedChain =>
        /\ Leaves(slot) = Leaves(op.before)
        /\ Markers(slot) = Markers(op.before)

(***************************************************************************)
(* C10, amended.  Every ChainStack on an error that has chain data, a      *)
(* repeated capture included, adds one segment and one boundary marker.    *)
(***************************************************************************)
C10_RepeatAddsLink ==
    RepeatedChain =>
        /\ Leaves(slot) = Leaves(op.before) + 1
        /\ Markers(slot) = Markers(op.before) + 1
        /\ ArrayGet(slot, 0) = Holder(op.stack)

C10_Witness ==
    /\ RepeatedChain
    /\ op.before.t = "array"
    /\ ArrayGet(op.before, 0) = Holder(op.stack)
    /\ slot # op.before

\* One frame's line, sep standing between the function name and "(".
LineOf(frame, sep) ==
    LET pos == IntToDec(frame.line) \o <<58>> \o IntToDec(frame.column)
    IN  IF frame.isEval /\ frame.scriptId = kNoScriptIdInfo
        THEN AtPrefix \o <<91, 101, 118, 97, 108, 93, 58>> \o pos
        ELSE IF frame.isEval
        THEN AtPrefix \o <<91, 101, 118, 97, 108, 93, 32, 40>>
                \o frame.script \o <<58>> \o pos
        ELSE IF frame.fn = <<>>
        THEN AtPrefix \o frame.script \o <<58>> \o pos
        ELSE AtPrefix \o frame.fn \o sep \o <<40>>
                \o frame.script \o <<58>> \o pos \o <<41>>

LinesOf(frames, sep) == Flatten([i \in 1..Len(frames) |-> LineOf(frames[i], sep)])

(***************************************************************************)
(* C5.  As claimed: one "at" line per frame, in frame order, of the shape  *)
(* `at <function>(<script>:<line>:<col>)` for a named function.            *)
(***************************************************************************)
C5_LinePerFrame ==
    (pc = "done" /\ data.t = "holder") =>
        /\ rendered = Ok(LinesOf(data.stack_trace.frames, <<>>))
        /\ Occurrences(AtPrefix, rendered.str) = Len(data.stack_trace.frames)

FirstNewline(s) ==
    IF \E i \in 1..Len(s) : s[i] = 10
    THEN CHOOSE i \in 1..Len(s) : s[i] = 10 /\ \A j \in 1..(i - 1) : s[j] # 10
    ELSE 0

ClaimedString(s) ==
    IF Len(s) >= 4 /\ \A i \in 1..4 : s[i] = 32 THEN s
    ELSE IF FirstNewline(s) # 0 THEN SubSeq(s, FirstNewline(s), Len(s))
    ELSE <<>>

(***************************************************************************)
(* C6.  As claimed: a string that starts with four spaces is returned as   *)
(* it is; otherwise a string with a newline is returned from its first     *)
(* newline on, unchanged; otherwise the empty string is returned.          *)
(***************************************************************************)
C6_StringOutcomes ==
    (pc = "done" /\ data.t = "string") => rendered = Ok(ClaimedString(data.s))

====
